---- MODULE Spec2Model ----
(***************************************************************************)
(* Marketplace backend (Node/Express, SQLite): the users, products and     *)
(* orders tables and the HTTP handlers that read and write them, as in     *)
(* src/marketplace_backend_node.js.  Every handler is one action, except   *)
(* the two handlers that write a table after an await (signup awaits the   *)
(* password hash, create-checkout-session awaits the payment processor):   *)
(* those are split at the await, because other requests run in between.    *)
(***************************************************************************)
EXTENDS Integers, Sequences, FiniteSets, TLC

\* ---------------------------------------------------------------- bounds
MaxSignups == 3      \* signup requests that get past the email-exists check
MaxProducts == 2     \* product rows ever created
MaxSessions == 2     \* checkout sessions the processor ever creates

\* ---------------------------------------------------------------- inputs
\* A field absent from the JSON body (JavaScript undefined).
Undef == "undefined"
\* JavaScript truthiness of a body field that is a string or absent.
Falsy(x) == x \in {Undef, ""}

Emails == {"a@x.com", "b@x.com"}
Passwords == {"pw", "bad"}
Titles == {"Ebook"}

\* The Authorization header of a request: absent, not of the form
\* "<scheme> <token>", a token that fails jwt.verify, or a token signed with
\* JWT_SECRET whose role claim is user or admin.  (signup only ever issues
\* admin tokens; a valid token with another role is one signed with the same
\* secret for a users row that was not written by signup.)
Tokens == {"none", "malformed", "invalid", "user", "admin"}

\* The price field of a product request.  A number is held in thousandths of
\* a currency unit (19990 is 19.99), so that Math.round has something to round.
NumPrice(m) == [kind |-> "num", milli |-> m]
Prices == {[kind |-> "undef", milli |-> 0], [kind |-> "text", milli |-> 0]}
            \cup {NumPrice(m) : m \in {-5000, 0, 19990}}

\* A webhook request: its Content-Type (application/json, as the processor
\* sends it, or anything else), its body (a checkout.session.completed event
\* for session sid, an event of another type, the JSON text null, or bytes
\* that are not JSON), and its stripe-signature header (a signature made
\* with the shared webhook secret over this body, another one, or none).
CTypes == {"json", "other"}
Payloads == {"completed", "other", "null", "garbage"}
Sigs == {"valid", "invalid", "missing"}

\* ---------------------------------------------------------------- state
VARIABLES
    users,          \* table users: set of rows [id, email, password_hash, role]
    products,       \* table products: set of rows [id, title, price_cents]
    orders,         \* table orders: sequence of rows [id, session_id, status]
    hashing,        \* signup handlers awaiting hashPassword: [id, email, password]
    checkouts,      \* checkout handlers awaiting the processor: [sid, ok]
    sessions,       \* session ids the processor has created
    webhookSecret,  \* whether STRIPE_WEBHOOK_SECRET is set
    nextUser,       \* signup ids handed out so far (uuidv4 is fresh each time)
    nextProduct,    \* product ids handed out so far
    acked,          \* session ids whose completion event was answered {received:true}
    lastReq,        \* the request the last step worked on
    lastResp        \* the response of the last step

vars == <<users, products, orders, hashing, checkouts, sessions, webhookSecret,
          nextUser, nextProduct, acked, lastReq, lastResp>>

\* Responses: an HTTP status and the kind of body.  Awaiting is a handler
\* suspended at an await; NoResponse is a handler whose promise rejected
\* (Express 4 does not catch it: the request is never answered).
Resp(s, b) == [status |-> s, body |-> b]
Awaiting == Resp(0, "awaiting")
NoResponse == Resp(0, "unhandled rejection")

\* ---------------------------------------------------------------- helper queries
\* bcrypt.hash: one-way, so the stored value is not the password.
hashPassword(plain) == <<"bcrypt", plain>>
verifyPassword(plain, hash) == hash = hashPassword(plain)

getUserByEmail(email) == {u \in users : u.email = email}

\* INSERT INTO users: email is UNIQUE, so the statement throws (Failed) when a
\* row with that email exists and the table is left as it was.
insertUserFails(row) == \E u \in users : u.email = row.email \/ u.id = row.id
\* insertUser on a table whose email column is not UNIQUE.
insertUserNotUnique(row) == users \cup {row}
insertUser(row) == IF insertUserFails(row) THEN users ELSE users \cup {row}

getProductById(id) == {p \in products : p.id = id}
insertProduct(row) == products \cup {row}
updateProduct(row) == {IF p.id = row.id THEN row ELSE p : p \in products}
deleteProduct(id) == {p \in products : p.id # id}

\* insertOrder writing the final status straight away.
insertOrderPaid(sid) ==
    Append(orders, [id |-> Len(orders) + 1, session_id |-> sid, status |-> "paid"])
\* insertOrder run twice for one session.
insertOrderTwice(sid) ==
    Append(Append(orders, [id |-> Len(orders) + 1, session_id |-> sid,
                           status |-> "pending"]),
           [id |-> Len(orders) + 2, session_id |-> sid, status |-> "pending"])
insertOrder(sid) ==
    Append(orders, [id |-> Len(orders) + 1, session_id |-> sid, status |-> "pending"])
\* updateOrderStatus that flips the status instead of setting it.
updateOrderStatusToggle(status, sid) ==
    [i \in 1..Len(orders) |->
        IF orders[i].session_id = sid
        THEN [orders[i] EXCEPT !.status = IF @ = status THEN "pending" ELSE status]
        ELSE orders[i]]
updateOrderStatus(status, sid) ==
    [i \in 1..Len(orders) |->
        IF orders[i].session_id = sid THEN [orders[i] EXCEPT !.status = status]
        ELSE orders[i]]

\* ---------------------------------------------------------------- auth
\* authMiddleware: 401 unless the header has two parts and the token verifies;
\* otherwise the token's role claim becomes req.user.role.
authMiddleware(token) ==
    IF token \in {"none", "malformed", "invalid"} THEN Resp(401, "error")
    ELSE Resp(200, token)
\* The role check left out: any verified token passes.
requireAdminAnyRole(token) ==
    IF authMiddleware(token).status = 401 THEN Resp(401, "error")
    ELSE Resp(200, "admin")
\* The role check every admin route starts with.
requireAdmin(token) ==
    IF authMiddleware(token).status = 401 THEN Resp(401, "error")
    ELSE IF authMiddleware(token).body # "admin" THEN Resp(403, "Forbidden")
    ELSE Resp(200, "admin")

\* ---------------------------------------------------------------- init
Init ==
    /\ users = {}
    /\ products = {}
    /\ orders = <<>>
    /\ hashing = {}
    /\ checkouts = {}
    /\ sessions = {}
    /\ webhookSecret \in BOOLEAN
    /\ nextUser = 0
    /\ nextProduct = 0
    /\ acked = {}
    /\ lastReq = [op |-> "listen"]
    /\ lastResp = Resp(200, "listening")

\* ---------------------------------------------------------------- signup
\* POST /api/signup up to the await: 400 on a missing field, 409 when the
\* email is registered, otherwise the handler suspends in hashPassword.
SignupBegin(email, password) ==
    LET req == [op |-> "signup", email |-> email, password |-> password] IN
    /\ lastReq' = req
    /\ IF Falsy(email) \/ Falsy(password)
       THEN /\ lastResp' = Resp(400, "Missing fields")
            /\ UNCHANGED <<hashing, nextUser>>
       ELSE IF getUserByEmail(email) # {}
       THEN /\ lastResp' = Resp(409, "Email exists")
            /\ UNCHANGED <<hashing, nextUser>>
       ELSE /\ nextUser < MaxSignups
            /\ nextUser' = nextUser + 1
            /\ hashing' = hashing \cup
                    {[id |-> nextUser + 1, email |-> email, password |-> password]}
            /\ lastResp' = Awaiting
    /\ UNCHANGED <<users, products, orders, checkouts, sessions, webhookSecret,
                   nextProduct, acked>>

\* POST /api/signup after the await: the insert, then the token.  When the
\* insert throws, the async handler's promise rejects and nothing is sent.
SignupResume(h) ==
    LET row == [id |-> h.id, email |-> h.email,
                password_hash |-> hashPassword(h.password), role |-> "admin"] IN
    /\ h \in hashing
    /\ hashing' = hashing \ {h}
    /\ lastReq' = [op |-> "signup", email |-> h.email, password |-> h.password]
    /\ users' = insertUser(row)
    /\ lastResp' = IF insertUserFails(row) THEN NoResponse ELSE Resp(200, "token")
    /\ UNCHANGED <<products, orders, checkouts, sessions, webhookSecret,
                   nextUser, nextProduct, acked>>

\* POST /api/login: the two awaits in it are followed by reads only.
Login(email, password) ==
    /\ lastReq' = [op |-> "login", email |-> email, password |-> password]
    /\ lastResp' =
          IF getUserByEmail(email) = {} THEN Resp(401, "Invalid")
          ELSE IF \A u \in getUserByEmail(email) :
                    ~verifyPassword(password, u.password_hash)
          THEN Resp(401, "Invalid")
          ELSE Resp(200, "token")
    /\ UNCHANGED <<users, products, orders, hashing, checkouts, sessions,
                   webhookSecret, nextUser, nextProduct, acked>>

\* ---------------------------------------------------------------- products
\* A price_cents column value: an integer, or NULL (SQLite stores a NaN that
\* is bound to a statement as NULL).  In the handlers the same record stands
\* for the JavaScript number, null standing for NaN.
Cents(v) == [null |-> FALSE, val |-> v]
NaN == [null |-> TRUE, val |-> 0]

\* Math.round(Number(price) * 100): Number of an absent field or of text that
\* is no number is NaN; Math.round rounds half up.  (The inputs are chosen so
\* that the product is exact in floating point.)
priceCents(price) ==
    IF price.kind # "num" THEN NaN ELSE Cents((price.milli + 5) \div 10)

\* !price: an absent field and the number 0 are falsy, text is not.
FalsyPrice(price) == price.kind = "undef" \/ (price.kind = "num" /\ price.milli = 0)
\* a || b on a number: NaN and 0 are falsy.
OrElse(a, b) == IF a.null \/ a.val = 0 THEN b ELSE a

\* POST /api/products
CreateProduct(token, title, price) ==
    LET id == nextProduct + 1
        row == [id |-> id, title |-> title, price_cents |-> priceCents(price)]
        ok == requireAdmin(token).status = 200 /\ ~Falsy(title) /\ ~FalsyPrice(price)
    IN
    /\ lastReq' = [op |-> "createProduct", token |-> token, title |-> title,
                   price |-> price]
    /\ ok => nextProduct < MaxProducts
    /\ lastResp' = IF requireAdmin(token).status # 200 THEN requireAdmin(token)
                   ELSE IF Falsy(title) \/ FalsyPrice(price) THEN Resp(400, "Missing")
                   ELSE Resp(200, "created")
    /\ products' = IF ok THEN insertProduct(row) ELSE products
    /\ nextProduct' = IF ok THEN id ELSE nextProduct
    /\ UNCHANGED <<users, orders, hashing, checkouts, sessions, webhookSecret,
                   nextUser, acked>>

\* PUT /api/products/:id: omitted (falsy) fields keep the row's value.
UpdateProduct(token, id, title, price) ==
    LET found == getProductById(id)
        ok == requireAdmin(token).status = 200 /\ found # {}
        merged(row) == [id |-> id,
                        title |-> IF Falsy(title) THEN row.title ELSE title,
                        price_cents |-> OrElse(priceCents(price), row.price_cents)]
    IN
    /\ lastReq' = [op |-> "updateProduct", token |-> token, id |-> id,
                   title |-> title, price |-> price]
    /\ lastResp' = IF requireAdmin(token).status # 200 THEN requireAdmin(token)
                   ELSE IF found = {} THEN Resp(404, "Not found")
                   ELSE Resp(200, "ok")
    /\ products' = IF ok THEN updateProduct(merged(CHOOSE r \in found : TRUE))
                   ELSE products
    /\ UNCHANGED <<users, orders, hashing, checkouts, sessions, webhookSecret,
                   nextUser, nextProduct, acked>>

\* DELETE /api/products/:id: no existence check.
DeleteProduct(token, id) ==
    /\ lastReq' = [op |-> "deleteProduct", token |-> token, id |-> id]
    /\ lastResp' = IF requireAdmin(token).status # 200 THEN requireAdmin(token)
                   ELSE Resp(200, "ok")
    /\ products' = IF requireAdmin(token).status = 200 THEN deleteProduct(id)
                   ELSE products
    /\ UNCHANGED <<users, orders, hashing, checkouts, sessions, webhookSecret,
                   nextUser, nextProduct, acked>>

\* POST /api/uploads/presign: writes no table; signed is whether getSignedUrl
\* resolved.
Presign(token, filename, signed) ==
    /\ lastReq' = [op |-> "presign", token |-> token, filename |-> filename]
    /\ lastResp' = IF requireAdmin(token).status # 200 THEN requireAdmin(token)
                   ELSE IF Falsy(filename) THEN Resp(400, "Missing")
                   ELSE IF signed THEN Resp(200, "uploadUrl")
                   ELSE Resp(500, "presign failed")
    /\ UNCHANGED <<users, products, orders, hashing, checkouts, sessions,
                   webhookSecret, nextUser, nextProduct, acked>>

\* ---------------------------------------------------------------- checkout
\* POST /api/create-checkout-session up to the await.  items is "array" or
\* Undef (items.map then throws inside the try: 500).  created is the
\* processor's outcome: it creates a session with a fresh id, or fails; the
\* handler learns of it only when it resumes.
CheckoutBegin(items, created) ==
    LET sid == Cardinality(sessions) + 1 IN
    /\ lastReq' = [op |-> "checkout", items |-> items]
    /\ IF items = Undef
       THEN /\ lastResp' = Resp(500, "stripe error")
            /\ UNCHANGED <<checkouts, sessions>>
       ELSE IF created
       THEN /\ sid <= MaxSessions
            /\ sessions' = sessions \cup {sid}
            /\ checkouts' = checkouts \cup {[sid |-> sid, ok |-> TRUE]}
            /\ lastResp' = Awaiting
       ELSE /\ checkouts' = checkouts \cup {[sid |-> 0, ok |-> FALSE]}
            /\ lastResp' = Awaiting
            /\ UNCHANGED sessions
    /\ UNCHANGED <<users, products, orders, hashing, webhookSecret, nextUser,
                   nextProduct, acked>>

\* POST /api/create-checkout-session after the await: the order row, then the
\* url; or the catch block when the processor call rejected.
CheckoutResume(c) ==
    /\ c \in checkouts
    /\ checkouts' = checkouts \ {c}
    /\ lastReq' = [op |-> "checkout", items |-> "array"]
    /\ orders' = IF c.ok THEN insertOrder(c.sid) ELSE orders
    /\ lastResp' = IF c.ok THEN Resp(200, "url") ELSE Resp(500, "stripe error")
    /\ UNCHANGED <<users, products, hashing, sessions, webhookSecret, nextUser,
                   nextProduct, acked>>

\* ---------------------------------------------------------------- webhook
\* The webhook requests that can arrive: the processor signs only events it
\* made, for sessions it created; anyone can send anything else.
WebhookRequests ==
    {r \in [op : {"webhook"}, ctype : CTypes, payload : Payloads, sig : Sigs,
            sid : 0..MaxSessions] :
        /\ (r.payload = "completed") = (r.sid # 0)
        /\ r.sig = "valid" =>
              /\ r.payload \in {"completed", "other"}
              /\ r.payload = "completed" => r.sid \in sessions}

\* app.use(bodyParser.json()): parses a body whose Content-Type is JSON and
\* marks the request as parsed; strict mode accepts only an object or array,
\* anything else is a 400 before any route runs.
jsonParser(req) ==
    IF req.ctype # "json" THEN "skipped"
    ELSE IF req.payload \in {"completed", "other"} THEN "parsed"
    ELSE "error"
\* bodyParser.raw({type: '*/*'}) on the route: leaves a parsed body alone,
\* otherwise req.body is the Buffer of the bytes received.
reqBody(req) == IF jsonParser(req) = "parsed" THEN "object" ELSE "buffer"

\* constructEvent that parses the payload without comparing the signature.
constructEventUnchecked(req) ==
    IF reqBody(req) = "object" \/ req.payload = "garbage"
    THEN "throws" ELSE req.payload
\* stripe.webhooks.constructEvent(req.body, sig, secret): throws unless the
\* signature matches the raw bytes; a parsed object is not the bytes that
\* were signed.  Then JSON.parse of the payload.
constructEvent(req) ==
    IF reqBody(req) = "object" \/ req.sig # "valid" \/ req.payload = "garbage"
    THEN "throws" ELSE req.payload
\* JSON.parse(req.body.toString()): an object's toString is "[object Object]".
devParse(req) ==
    IF reqBody(req) = "object" \/ req.payload = "garbage"
    THEN "throws" ELSE req.payload
parseEvent(req) == IF webhookSecret THEN constructEvent(req) ELSE devParse(req)

\* POST /api/webhooks/stripe, with the parsers that run ahead of it.  An event
\* that is null makes event.type throw outside the try: Express answers 500.
Webhook(req) ==
    LET event == parseEvent(req)
        paid == jsonParser(req) # "error" /\ event = "completed"
    IN
    /\ req \in WebhookRequests
    /\ lastReq' = req
    /\ lastResp' = IF jsonParser(req) = "error" THEN Resp(400, "parse error")
                   ELSE IF event = "throws" THEN Resp(400, "Webhook Error")
                   ELSE IF event = "null" THEN Resp(500, "TypeError")
                   ELSE Resp(200, "received")
    /\ orders' = IF paid THEN updateOrderStatus("paid", req.sid) ELSE orders
    /\ acked' = IF paid THEN acked \cup {req.sid} ELSE acked
    /\ UNCHANGED <<users, products, hashing, checkouts, sessions, webhookSecret,
                   nextUser, nextProduct>>

\* ---------------------------------------------------------------- next
\* The handlers fall into three groups that write disjoint tables: signup and
\* login touch users only, the product routes and presign touch products
\* only, checkout and the webhook touch orders only (the UNCHANGED clauses
\* above).  Each group is explored on its own, the other tables staying as
\* Init leaves them; Spec is the whole server.
NextAuth ==
    \/ \E e \in Emails \cup {Undef}, p \in {"pw", Undef} : SignupBegin(e, p)
    \/ \E h \in hashing : SignupResume(h)
    \/ \E e \in Emails, p \in Passwords : Login(e, p)

NextCatalog ==
    \/ \E t \in Tokens, ti \in Titles \cup {Undef}, p \in Prices : CreateProduct(t, ti, p)
    \/ \E t \in Tokens, id \in 1..MaxProducts, ti \in Titles \cup {Undef}, p \in Prices :
          UpdateProduct(t, id, ti, p)
    \/ \E t \in Tokens, id \in 1..MaxProducts : DeleteProduct(t, id)
    \/ \E t \in Tokens, f \in {"a.pdf", Undef}, signed \in BOOLEAN : Presign(t, f, signed)

NextOrders ==
    \/ \E items \in {"array", Undef}, created \in BOOLEAN : CheckoutBegin(items, created)
    \/ \E c \in checkouts : CheckoutResume(c)
    \/ \E r \in WebhookRequests : Webhook(r)

Next == NextAuth \/ NextCatalog \/ NextOrders

SpecAuth == Init /\ [][NextAuth]_vars
SpecCatalog == Init /\ [][NextCatalog]_vars
SpecOrders == Init /\ [][NextOrders]_vars
Spec == Init /\ [][Next]_vars

\* ================================================================ claims
ProductOps == {"createProduct", "updateProduct", "deleteProduct"}
OrdersOf(sid) == {i \in 1..Len(orders) : orders[i].session_id = sid}
UniqueEmails == \A u1, u2 \in users : u1.email = u2.email => u1 = u2

\* C1: a completion event signed by the processor for a session that has an
\* Order row, delivered as the processor delivers it (through the global JSON
\* parser), is acknowledged with {received:true} and leaves that Order paid.
C1_SignedCompletionMarksPaid ==
    (/\ webhookSecret
     /\ lastReq.op = "webhook"
     /\ lastReq.sig = "valid"
     /\ lastReq.payload = "completed"
     /\ OrdersOf(lastReq.sid) # {})
    => /\ lastResp = Resp(200, "received")
       /\ \A i \in OrdersOf(lastReq.sid) : orders[i].status = "paid"

\* C2: every Order row has status pending or paid; a row is created pending,
\* a paid row stays paid, and no row is deleted or re-keyed.
C2_OrderLifecycle ==
    [][/\ \A i \in 1..Len(orders') : orders'[i].status \in {"pending", "paid"}
       /\ Len(orders') >= Len(orders)
       /\ \A i \in 1..Len(orders) :
             /\ orders'[i].id = orders[i].id
             /\ orders'[i].session_id = orders[i].session_id
             /\ orders[i].status = "paid" => orders'[i].status = "paid"
       /\ \A i \in (Len(orders) + 1)..Len(orders') : orders'[i].status = "pending"]_vars
C2_Witness ==
    \E i, j \in 1..Len(orders) : orders[i].status = "paid" /\ orders[j].status = "pending"

C4_ReplayIsNoOp ==
    [][(/\ lastReq.op = "webhook"
        /\ lastReq.payload = "completed"
        /\ lastResp = Resp(200, "received")
        /\ lastReq' = lastReq)
       => /\ lastResp' = Resp(200, "received")
          /\ orders' = orders
          /\ users' = users
          /\ products' = products
          /\ acked' = acked]_vars
C4_Witness ==
    /\ lastReq.op = "webhook"
    /\ lastReq.payload = "completed"
    /\ lastResp = Resp(200, "received")
    /\ \E i \in OrdersOf(lastReq.sid) : orders[i].status = "paid"

\* C5 as stated: every create-checkout-session call that is answered has
\* added exactly one pending Order row.
C5_EveryAnswerAddsOneOrder ==
    [][(lastReq'.op = "checkout" /\ lastResp' # Awaiting)
       => /\ Len(orders') = Len(orders) + 1
          /\ orders'[Len(orders')].status = "pending"]_vars
\* C5 as amended: a call answered 200 with the url has added exactly one
\* pending row keyed by the processor's session id; a call answered 500
\* (items is no array, or the processor call failed) has added none.
C5_SuccessAddsOneOrder ==
    [][lastReq'.op = "checkout" =>
         /\ lastResp'.status = 200 =>
               \E sid \in sessions :
                   /\ OrdersOf(sid) = {}
                   /\ orders' = Append(orders, [id |-> Len(orders) + 1,
                                                session_id |-> sid,
                                                status |-> "pending"])
         /\ lastResp'.status # 200 => orders' = orders]_vars
C5_Witness ==
    /\ lastReq.op = "checkout"
    /\ lastResp = Resp(200, "url")
    /\ Len(orders) = 2
    /\ orders[2].status = "pending"

\* C6: users holds at most one row per email; a signup that arrives when its
\* email is registered is answered 409, and a signup that is not answered
\* with a token leaves users unchanged.
C6_DuplicateSignupConflict ==
    [][/\ UniqueEmails'
       /\ (/\ lastReq'.op = "signup"
           /\ hashing \subseteq hashing'
           /\ ~Falsy(lastReq'.password)
           /\ getUserByEmail(lastReq'.email) # {})
          => (lastResp' = Resp(409, "Email exists") /\ users' = users
                /\ hashing' = hashing)
       /\ (lastReq'.op = "signup" /\ lastResp'.status # 200) => users' = users
       /\ Cardinality(users') <= Cardinality(users) + 1]_vars
C6_Witness ==
    /\ lastReq.op = "signup"
    /\ lastResp = Resp(409, "Email exists")
    /\ Cardinality(getUserByEmail(lastReq.email)) = 1
    /\ Cardinality(users) = 2

\* C7: products changes only on a request with a valid admin token; a product
\* request with a missing, malformed or invalid token is answered 401, one
\* with a valid non-admin token 403, whatever its fields and whether or not
\* the product exists, and products is unchanged.
C7_OnlyAdminChangesProducts ==
    [][/\ products' # products
          => (lastReq'.op \in ProductOps /\ lastReq'.token = "admin")
       /\ (lastReq'.op \in ProductOps
              /\ lastReq'.token \in {"none", "malformed", "invalid"})
          => (lastResp'.status = 401 /\ products' = products)
       /\ (lastReq'.op \in ProductOps /\ lastReq'.token = "user")
          => (lastResp'.status = 403 /\ products' = products)]_vars
C7_Witness ==
    /\ lastReq.op = "updateProduct"
    /\ lastReq.token = "user"
    /\ lastReq.title = Undef
    /\ getProductById(lastReq.id) = {}
    /\ products # {}
    /\ lastResp.status = 403

\* C8: every Product row's price_cents is a non-negative integer.
C8_PriceNonNegative ==
    \A p \in products : ~p.price_cents.null /\ p.price_cents.val >= 0

\* C9: once the Order row of a session exists and a completion event for
\* that session has been acknowledged, the Order is paid.
C9_CompletionNeverLost ==
    \A i \in 1..Len(orders) :
        orders[i].session_id \in acked => orders[i].status = "paid"

\* C10: at most one row per email, and a signup with both fields present
\* that has finished was answered with a token or with Conflict.
C10_RacingSignupsBothAnswered ==
    /\ UniqueEmails
    /\ (lastReq.op = "signup" /\ ~Falsy(lastReq.email) /\ ~Falsy(lastReq.password)
          /\ lastResp # Awaiting)
       => lastResp \in {Resp(200, "token"), Resp(409, "Email exists")}
====
